---- MODULE Spec2Model ----
(***************************************************************************)
(* csplib: a rollback timeline.  Events carry a timestamp and a target     *)
(* actor; a Timeline keeps a list of StageSnapshots (begin, stage, events) *)
(* and re-applies events when one is added in the past.                    *)
(*                                                                         *)
(* src/csplib.hpp holds two revisions of the library:                      *)
(*   lines   1-245  Actor/Stage with deep-copy constructors, bool add(),   *)
(*                  snapshotAt(), the live stage is latest().stage();      *)
(*   lines 247-461  Stage::clone(), void add(), makeNewSnapshot(), the     *)
(*                  live stage is the separate member m_latest.            *)
(* Both are modelled.  Definitions of the second revision carry the suffix *)
(* L (for m_latest) where the source uses the same name in both.           *)
(***************************************************************************)
EXTENDS Integers, Sequences, FiniteSets, TLC

(* ------------------------------ bounds --------------------------------- *)
MaxTime == 3
MaxEvents == 3
MaxSnapshots == 3
MaxValue == 2

(* ----------------------------- constants ------------------------------- *)
\* Timestamp::makeZero()
ZERO == 0
\* the nullptr that Stage::find / Stage::get return for an absent actor
null == -1
\* the actor simpletest.cpp creates first
ActorIDs == {100}
\* the Event subclasses of simpletest.cpp
Kinds == {"CreateEvent", "IncrementEvent", "DoubleEvent"}
Times == ZERO..MaxTime

(* ------------------------------- Stage --------------------------------- *)
\* Stage(): std::map<ActorID, ...>, empty
Stage_empty == [a \in ActorIDs |-> null]

find(stage, id) == stage[id]

setMapping(stage, id, value) == [stage EXCEPT ![id] = value]

(* ------------------------------- Events -------------------------------- *)
\* An event is [when, target, kind, id]; id stands for the identity of the
\* heap object (the Event * the timeline stores): the n-th event submitted.

CreateEvent_apply(event, stage) ==
    IF find(stage, event.target) # null
    THEN [value |-> FALSE, stage |-> stage]
    ELSE [value |-> TRUE, stage |-> setMapping(stage, event.target, 0)]

IncrementEvent_apply(event, stage) ==
    IF find(stage, event.target) = null
    THEN [value |-> FALSE, stage |-> stage]
    ELSE [value |-> TRUE,
          stage |-> setMapping(stage, event.target, find(stage, event.target) + 1)]

DoubleEvent_apply(event, stage) ==
    IF find(stage, event.target) = null
    THEN [value |-> FALSE, stage |-> stage]
    ELSE [value |-> TRUE,
          stage |-> setMapping(stage, event.target, find(stage, event.target) * 2)]

\* virtual bool Event::apply(Stage &)
Event_apply(event, stage) ==
    CASE event.kind = "CreateEvent" -> CreateEvent_apply(event, stage)
      [] event.kind = "IncrementEvent" -> IncrementEvent_apply(event, stage)
      [] event.kind = "DoubleEvent" -> DoubleEvent_apply(event, stage)

\* Event::operator <
Event_less(a, b) == a.when < b.when

\* for(auto event : events) event->apply(stage);
RECURSIVE applyEvents(_, _)
applyEvents(events, stage) ==
    IF events = << >> THEN stage
    ELSE applyEvents(Tail(events), Event_apply(Head(events), stage).stage)

(* ---------------------------- StageSnapshot ---------------------------- *)
\* StageSnapshot(begin) and StageSnapshot(begin, stage)
StageSnapshot(begin, stage) == [begin |-> begin, stage |-> stage, events |-> << >>]

InsertAt(s, k, x) == SubSeq(s, 1, k - 1) \o << x >> \o SubSeq(s, k, Len(s))

\* std::lower_bound: the first position whose element is not less than event
lower_bound(events, event) ==
    LET stop == {k \in 1..Len(events) : ~Event_less(events[k], event)}
    IN  IF stop = {} THEN Len(events) + 1
        ELSE CHOOSE k \in stop : \A j \in stop : k <= j

\* StageSnapshot::add (first revision): insert at lower_bound
StageSnapshot_add(events, event) ==
    InsertAt(events, lower_bound(events, event), event)

\* std::stable_sort with Event_less: insertion sort that moves an element
\* left only past strictly greater ones
RECURSIVE stable_sort(_)
stable_sort(s) ==
    IF Len(s) <= 1 THEN s
    ELSE LET front == stable_sort(SubSeq(s, 1, Len(s) - 1))
             x == s[Len(s)]
             greater == {k \in 1..Len(front) : Event_less(x, front[k])}
             pos == IF greater = {} THEN Len(front) + 1
                    ELSE CHOOSE k \in greater : \A j \in greater : k <= j
         IN  InsertAt(front, pos, x)

\* faulty addEvent: push_back without the stable_sort
StageSnapshot_addEvent_unsorted(events, event) == Append(events, event)

\* StageSnapshot::addEvent (second revision): push_back, then stable_sort
StageSnapshot_addEvent(events, event) == stable_sort(Append(events, event))

(* ----------------------- Timeline, first revision ---------------------- *)
\* A timeline is [snapshots]; indices are 0-based in the code, 1-based here.
Timeline_new == [snapshots |-> << StageSnapshot(ZERO, Stage_empty) >>]

\* Timeline::stage(): latest().stage()
Timeline_stage(timeline) == timeline.snapshots[Len(timeline.snapshots)].stage

\* Timeline::indexOf: i - 1 for the first i whose begin is >= the event's
\* timestamp, size - 1 when there is none
Timeline_indexOf(snapshots, event) ==
    LET size == Len(snapshots)
        hit == {i \in 0..(size - 1) :
                   \/ event.when < snapshots[i + 1].begin
                   \/ event.when = snapshots[i + 1].begin}
    IN  IF hit = {} THEN size - 1
        ELSE (CHOOSE i \in hit : \A j \in hit : i <= j) - 1

\* the loop of Timeline::add, from iteration i on: every iteration copies
\* m_snapshots[closestIndex].stage() as it is at that moment
RECURSIVE Timeline_reassemble(_, _, _)
Timeline_reassemble(snapshots, closestIndex, i) ==
    IF i >= Len(snapshots) THEN snapshots
    ELSE LET stage == applyEvents(snapshots[i + 1].events,
                                  snapshots[closestIndex + 1].stage)
         IN  Timeline_reassemble([snapshots EXCEPT ![i + 1].stage = stage],
                                 closestIndex, i + 1)

\* bool Timeline::add(Event *)
Timeline_add(timeline, event) ==
    LET closestIndex == Timeline_indexOf(timeline.snapshots, event)
    IN  IF closestIndex = -1
        THEN [ret |-> FALSE, timeline |-> timeline]
        ELSE LET inserted == [timeline.snapshots EXCEPT
                                 ![closestIndex + 1].events =
                                     StageSnapshot_add(@, event)]
             IN  [ret |-> TRUE,
                  timeline |-> [snapshots |->
                      Timeline_reassemble(inserted, closestIndex, closestIndex)]]

\* faulty snapshotAt: the new snapshot begins at makeZero() instead of now
Timeline_snapshotAt_atZero(timeline, now) ==
    [snapshots |-> Append(timeline.snapshots,
                          StageSnapshot(ZERO, Timeline_stage(timeline)))]

\* Timeline::snapshotAt
Timeline_snapshotAt(timeline, now) ==
    [snapshots |-> Append(timeline.snapshots,
                          StageSnapshot(now, Timeline_stage(timeline)))]

\* faulty limitSnapshots: erases from the end, keeping the oldest snapshots
Timeline_limitSnapshots_oldest(timeline, count) ==
    LET c == IF count < 1 THEN 1 ELSE count
        size == Len(timeline.snapshots)
    IN  IF size <= c THEN timeline
        ELSE [snapshots |-> SubSeq(timeline.snapshots, 1, c)]

\* Timeline::limitSnapshots
Timeline_limitSnapshots(timeline, count) ==
    LET c == IF count < 1 THEN 1 ELSE count
        size == Len(timeline.snapshots)
    IN  IF size <= c THEN timeline
        ELSE [snapshots |-> SubSeq(timeline.snapshots, size - c + 1, size)]

(* ---------------------- Timeline, second revision ---------------------- *)
\* A timeline is [snapshots, latest]; latest is the stage of m_latest.
TimelineL_new ==
    [snapshots |-> << StageSnapshot(ZERO, Stage_empty) >>, latest |-> Stage_empty]

\* Timeline::latest().stage()
TimelineL_latest(timeline) == timeline.latest

\* faulty indexOf: an event older than every snapshot is given to snapshot 0
TimelineL_indexOf_clamped(snapshots, event) ==
    LET size == Len(snapshots)
        hit == {i \in 0..(size - 1) :
                   \/ event.when < snapshots[i + 1].begin
                   \/ event.when = snapshots[i + 1].begin}
        first == IF hit = {} THEN size
                 ELSE CHOOSE i \in hit : \A j \in hit : i <= j
    IN  IF first = 0 THEN 0 ELSE first - 1

\* Timeline::indexOf
TimelineL_indexOf(snapshots, event) ==
    LET size == Len(snapshots)
        hit == {i \in 0..(size - 1) :
                   \/ event.when < snapshots[i + 1].begin
                   \/ event.when = snapshots[i + 1].begin}
    IN  IF hit = {} THEN size - 1
        ELSE (CHOOSE i \in hit : \A j \in hit : i <= j) - 1

\* the first loop of Timeline::add, from iteration i on: the working stage is
\* threaded forward; returns the snapshots and the working stage
RECURSIVE TimelineL_reassemble(_, _, _)
TimelineL_reassemble(snapshots, stage, i) ==
    IF i >= Len(snapshots) THEN [snapshots |-> snapshots, stage |-> stage]
    ELSE LET next == applyEvents(snapshots[i].events, stage)
         IN  TimelineL_reassemble([snapshots EXCEPT ![i + 1].stage = next],
                                  next, i + 1)

\* faulty add: an event older than the oldest snapshot is put into the oldest
\* snapshot instead of being dropped
TimelineL_add_noReject(timeline, event) ==
    LET found == TimelineL_indexOf(timeline.snapshots, event)
        closestIndex == IF found = -1 THEN 0 ELSE found
        inserted == [timeline.snapshots EXCEPT
                        ![closestIndex + 1].events = StageSnapshot_addEvent(@, event)]
        r == TimelineL_reassemble(inserted,
                 inserted[closestIndex + 1].stage, closestIndex + 1)
    IN  [snapshots |-> r.snapshots,
         latest |-> applyEvents(r.snapshots[Len(r.snapshots)].events, r.stage)]

\* faulty add: an event whose insertion left the live stage as it was is not
\* kept
TimelineL_add_dropIdle(timeline, event) ==
    LET closestIndex == TimelineL_indexOf(timeline.snapshots, event)
    IN  IF closestIndex = -1
        THEN timeline
        ELSE LET inserted == [timeline.snapshots EXCEPT
                                 ![closestIndex + 1].events =
                                     StageSnapshot_addEvent(@, event)]
                 r == TimelineL_reassemble(inserted,
                          inserted[closestIndex + 1].stage, closestIndex + 1)
                 latest == applyEvents(
                               r.snapshots[Len(r.snapshots)].events, r.stage)
             IN  IF latest = timeline.latest THEN timeline
                 ELSE [snapshots |-> r.snapshots, latest |-> latest]

\* void Timeline::add(Event *)
TimelineL_add(timeline, event) ==
    LET closestIndex == TimelineL_indexOf(timeline.snapshots, event)
    IN  IF closestIndex = -1
        THEN timeline
        ELSE LET inserted == [timeline.snapshots EXCEPT
                                 ![closestIndex + 1].events =
                                     StageSnapshot_addEvent(@, event)]
                 r == TimelineL_reassemble(inserted,
                          inserted[closestIndex + 1].stage, closestIndex + 1)
             IN  [snapshots |-> r.snapshots,
                  latest |-> applyEvents(
                      r.snapshots[Len(r.snapshots)].events, r.stage)]

\* faulty makeNewSnapshot: the snapshot is built by StageSnapshot(begin), with
\* an empty stage
TimelineL_makeNewSnapshot_noBase(timeline, now) ==
    [timeline EXCEPT !.snapshots = Append(@, StageSnapshot(now, Stage_empty))]

\* faulty makeNewSnapshot: the new snapshot takes the place of the last one
TimelineL_makeNewSnapshot_replaceLast(timeline, now) ==
    [timeline EXCEPT !.snapshots =
        Append(SubSeq(@, 1, Len(@) - 1), StageSnapshot(now, timeline.latest))]

\* Timeline::makeNewSnapshot
TimelineL_makeNewSnapshot(timeline, now) ==
    [timeline EXCEPT !.snapshots = Append(@, StageSnapshot(now, timeline.latest))]

\* faulty limitSnapshots: a count below 1 is not raised to 1
TimelineL_limitSnapshots_noClamp(timeline, count) ==
    LET size == Len(timeline.snapshots)
    IN  IF size <= count THEN timeline
        ELSE [timeline EXCEPT !.snapshots = SubSeq(@, size - count + 1, size)]

\* Timeline::limitSnapshots
TimelineL_limitSnapshots(timeline, count) ==
    LET c == IF count < 1 THEN 1 ELSE count
        size == Len(timeline.snapshots)
    IN  IF size <= c THEN timeline
        ELSE [timeline EXCEPT !.snapshots = SubSeq(@, size - c + 1, size)]

(* -------------------------- StateSpecificEvent ------------------------- *)
\* The Stage of the first revision is a std::map from ActorID to Actor *; an
\* Actor is [id, state] and its state is nullptr or an ActorState
\* [type, value], type standing for the dynamic type dynamic_cast looks at.
nullptr == [type |-> "nullptr"]

\* the actors simpletest.cpp creates
StageIDs == {100, 101}

\* the ActorState subclass of simpletest.cpp, and one more for a wrong type
StateTypes == {"IntState", "OtherState"}

ActorStates ==
    {nullptr} \cup [type : {"IntState"}, value : 0..MaxValue]
              \cup [type : {"OtherState"}, value : {0}]

\* Actor(id, state)
Actor(id, state) == [id |-> id, state |-> state]

\* Stage()
Stage_new == << >>

\* void Stage::add(Actor *)
Stage_add(stage, actor) ==
    [a \in DOMAIN stage \cup {actor.id} |-> IF a = actor.id THEN actor ELSE stage[a]]

\* void Stage::remove(ActorID), for an id that is present
Stage_remove(stage, id) == [a \in DOMAIN stage \ {id} |-> stage[a]]

\* Actor *Stage::get(ActorID)
Stage_get(stage, id) == IF id \in DOMAIN stage THEN stage[id] ELSE nullptr

\* dynamic_cast<StateType *>(state)
dynamic_cast(StateType, state) ==
    IF state.type = StateType THEN state ELSE nullptr

\* An override of apply(Stage &, StateType *): it changes the state it is
\* given (value ++ on a state with a value) and returns what the event was
\* built to return.  A StateSpecificEvent is [target, StateType, returns].
Override_apply(event, stage, state) ==
    [value |-> event.returns,
     stage |-> [stage EXCEPT ![event.target].state.value = @ + 1],
     called |-> TRUE]

\* faulty apply: the state is cast without looking at its type
StateSpecificEvent_apply_unchecked(event, stage) ==
    LET target == Stage_get(stage, event.target)
    IN  IF target = nullptr
        THEN [value |-> FALSE, stage |-> stage, called |-> FALSE]
        ELSE LET specific == target.state
             IN  IF specific = nullptr
                 THEN [value |-> FALSE, stage |-> stage, called |-> FALSE]
                 ELSE Override_apply(event, stage, specific)

\* bool StateSpecificEvent::apply(Stage &)
StateSpecificEvent_apply(event, stage) ==
    LET target == Stage_get(stage, event.target)
    IN  IF target = nullptr
        THEN [value |-> FALSE, stage |-> stage, called |-> FALSE]
        ELSE LET specific == dynamic_cast(event.StateType, target.state)
             IN  IF specific = nullptr
                 THEN [value |-> FALSE, stage |-> stage, called |-> FALSE]
                 ELSE Override_apply(event, stage, specific)

(* ---------------------------- CallbackEvent ---------------------------- *)
\* A CallbackEvent wraps the event with the same id.  Its members m_first and
\* m_lastValue live in the event object, not in the stage, so a replay finds
\* them as the previous application left them.  env is what apply can read
\* and write: the stage, the members of every constructed CallbackEvent, and
\* the applications so far, each with the arguments the callback got or would
\* have got and whether it was called.

\* CallbackEvent(event, callback): m_first(true), m_lastValue not initialized
CallbackEvent_new == [m_first |-> TRUE, m_lastValue |-> "indeterminate"]

\* faulty apply: the callback is called on the first application only
CallbackEvent_apply_firstOnly(event, env) ==
    LET r == Event_apply(event, env.stage)
        value == r.value
        m == env.members[event.id]
        called == m.m_first
    IN  [value |-> TRUE,
         env |-> [stage |-> r.stage,
                  members |-> [env.members EXCEPT
                                  ![event.id] = [m_first |-> FALSE, m_lastValue |-> value]],
                  applications |-> Append(env.applications,
                      [id |-> event.id, target |-> event.target,
                       value |-> value, called |-> called, ret |-> TRUE])]]

\* bool CallbackEvent::apply(Stage &)
CallbackEvent_apply(event, env) ==
    LET r == Event_apply(event, env.stage)
        value == r.value
        m == env.members[event.id]
        called == m.m_first \/ value # m.m_lastValue
    IN  [value |-> TRUE,
         env |-> [stage |-> r.stage,
                  members |-> [env.members EXCEPT
                                  ![event.id] = [m_first |-> FALSE, m_lastValue |-> value]],
                  applications |-> Append(env.applications,
                      [id |-> event.id, target |-> event.target,
                       value |-> value, called |-> called, ret |-> TRUE])]]

\* for(auto event : events) event->apply(stage); with CallbackEvents
RECURSIVE applyCallbackEvents(_, _)
applyCallbackEvents(events, env) ==
    IF events = << >> THEN env
    ELSE applyCallbackEvents(Tail(events), CallbackEvent_apply(Head(events), env).env)

\* the reassembly loop of Timeline::add, with CallbackEvents
RECURSIVE TimelineL_reassembleCallback(_, _, _)
TimelineL_reassembleCallback(snapshots, env, i) ==
    IF i >= Len(snapshots) THEN [snapshots |-> snapshots, env |-> env]
    ELSE LET next == applyCallbackEvents(snapshots[i].events, env)
         IN  TimelineL_reassembleCallback(
                 [snapshots EXCEPT ![i + 1].stage = next.stage], next, i + 1)

\* void Timeline::add(Event *), given a new CallbackEvent
TimelineL_addCallback(timeline, event, members, applications) ==
    LET closestIndex == TimelineL_indexOf(timeline.snapshots, event)
        constructed == (event.id :> CallbackEvent_new) @@ members
    IN  IF closestIndex = -1
        THEN [timeline |-> timeline, members |-> constructed,
              applications |-> applications]
        ELSE LET inserted == [timeline.snapshots EXCEPT
                                 ![closestIndex + 1].events =
                                     StageSnapshot_addEvent(@, event)]
                 r == TimelineL_reassembleCallback(inserted,
                          [stage |-> inserted[closestIndex + 1].stage,
                           members |-> constructed,
                           applications |-> applications],
                          closestIndex + 1)
                 last == applyCallbackEvents(
                             r.snapshots[Len(r.snapshots)].events, r.env)
             IN  [timeline |-> [snapshots |-> r.snapshots, latest |-> last.stage],
                  members |-> last.members,
                  applications |-> last.applications]

(* ------------------------------ the state ------------------------------ *)
VARIABLES
    timeline,    \* the Timeline of the first revision
    timelineL,   \* the Timeline of the second revision, given the same calls
    nextId,      \* number of events submitted so far
    maxWhen,     \* the largest timestamp submitted so far
    monotonic,   \* every snapshot so far began after all begins and timestamps
    discarded,   \* limitSnapshots has erased a snapshot
    lastOp,      \* the last call: its name, argument and outcome
    ascending,   \* every snapshot so far began after all begins before it
    lostBegin,   \* the largest begin an erasing limitSnapshots left oldest
    runX,        \* a second-revision Timeline, for comparing two runs
    runY,        \* the Timeline of the other run
    pending,     \* the events the two runs submit
    orderX,      \* the order in which runX has submitted them
    notBefore,   \* every snapshot of runX began no earlier than all timestamps
    members,     \* m_first and m_lastValue of each CallbackEvent constructed
    applications, \* every CallbackEvent::apply so far, in order
    theStage,    \* a Stage of the first revision
    lastApply    \* the last call on theStage, and what apply gave

mainVars == << timeline, timelineL, discarded, lastOp, ascending, lostBegin >>
runVars == << runX, runY, pending, orderX, notBefore >>
unitVars == << members, applications, theStage, lastApply >>
vars == << timeline, timelineL, nextId, maxWhen, monotonic, discarded, lastOp,
           ascending, lostBegin, runX, runY, pending, orderX, notBefore,
           members, applications, theStage, lastApply >>

Max(a, b) == IF a >= b THEN a ELSE b

Range(s) == {s[k] : k \in 1..Len(s)}

InitMain ==
    /\ timeline = Timeline_new
    /\ timelineL = TimelineL_new
    /\ nextId = 0
    /\ maxWhen = ZERO
    /\ monotonic = TRUE
    /\ discarded = FALSE
    /\ lastOp = [op |-> "new", when |-> ZERO, id |-> -1, ret |-> TRUE, index |-> 0]
    /\ ascending = TRUE
    /\ lostBegin = ZERO

InitRuns ==
    /\ runX = TimelineL_new
    /\ runY = TimelineL_new
    /\ pending = << >>
    /\ orderX = << >>
    /\ notBefore = TRUE

NoEvent == [target |-> 0, StateType |-> "", returns |-> FALSE]

InitUnits ==
    /\ members = << >>
    /\ applications = << >>
    /\ theStage = Stage_new
    /\ lastApply = [op |-> "new", event |-> NoEvent, before |-> Stage_new,
                    value |-> FALSE, called |-> FALSE]

Init == InitMain /\ InitRuns /\ InitUnits

\* timeline.add(new <kind>(Timestamp(when), target))
Add(when, target, kind) ==
    LET event == [when |-> when, target |-> target, kind |-> kind, id |-> nextId]
        r == Timeline_add(timeline, event)
    IN  /\ nextId < MaxEvents
        /\ timeline' = r.timeline
        /\ timelineL' = TimelineL_add(timelineL, event)
        /\ nextId' = nextId + 1
        /\ maxWhen' = Max(maxWhen, when)
        /\ lastOp' = [op |-> "add", when |-> when, id |-> nextId, ret |-> r.ret,
                      index |-> TimelineL_indexOf(timelineL.snapshots, event)]
        /\ UNCHANGED << monotonic, discarded, ascending, lostBegin >>
        /\ UNCHANGED << runVars, unitVars >>

\* timeline.snapshotAt(now) / timeline.makeNewSnapshot(now)
SnapshotAt(now) ==
    /\ Len(timelineL.snapshots) < MaxSnapshots
    /\ timeline' = Timeline_snapshotAt(timeline, now)
    /\ timelineL' = TimelineL_makeNewSnapshot(timelineL, now)
    /\ monotonic' = (/\ monotonic
                     /\ now > maxWhen
                     /\ \A i \in 1..Len(timelineL.snapshots) :
                            now > timelineL.snapshots[i].begin)
    /\ lastOp' = [op |-> "snapshotAt", when |-> now, id |-> -1, ret |-> TRUE,
                  index |-> Len(timelineL.snapshots)]
    /\ ascending' = (/\ ascending
                     /\ \A i \in 1..Len(timelineL.snapshots) :
                            now > timelineL.snapshots[i].begin)
    /\ UNCHANGED << nextId, maxWhen, discarded, lostBegin >>
    /\ UNCHANGED << runVars, unitVars >>

\* timeline.limitSnapshots(count)
LimitSnapshots(count) ==
    /\ timeline' = Timeline_limitSnapshots(timeline, count)
    /\ timelineL' = TimelineL_limitSnapshots(timelineL, count)
    /\ discarded' = (discarded \/ Len(timelineL'.snapshots) < Len(timelineL.snapshots))
    /\ lastOp' = [op |-> "limitSnapshots", when |-> count, id |-> -1, ret |-> TRUE,
                  index |-> Len(timelineL.snapshots)]
    /\ UNCHANGED << nextId, maxWhen, monotonic, ascending, lostBegin >>
    /\ UNCHANGED << runVars, unitVars >>

Next ==
    \/ \E when \in Times, target \in ActorIDs, kind \in Kinds : Add(when, target, kind)
    \/ \E now \in Times : SnapshotAt(now)
    \/ \E count \in -1..MaxSnapshots : LimitSnapshots(count)

Spec == Init /\ [][Next]_vars

(* ------------- two submission orders of the same events ---------------- *)
\* simpletest.cpp submits a list of events to a fresh Timeline; here runY
\* submits the list pending in its order and runX submits it in any order.
EventValues == [when : Times, target : ActorIDs, kind : Kinds]

EventOf(k) == [when |-> pending[k].when, target |-> pending[k].target,
               kind |-> pending[k].kind, id |-> k]

InitOrder ==
    /\ InitMain
    /\ runX = TimelineL_new
    /\ runY = TimelineL_new
    /\ pending \in UNION {[1..n -> EventValues] : n \in 0..MaxEvents}
    /\ orderX = << >>
    /\ notBefore = TRUE
    /\ InitUnits

\* runX adds the k-th event of the list, runY the next one in list order
Submit(k) ==
    /\ k \in 1..Len(pending)
    /\ k \notin Range(orderX)
    /\ runX' = TimelineL_add(runX, EventOf(k))
    /\ runY' = TimelineL_add(runY, EventOf(Len(orderX) + 1))
    /\ orderX' = Append(orderX, k)
    /\ UNCHANGED << pending, notBefore, nextId, maxWhen, monotonic >>
    /\ UNCHANGED << mainVars, unitVars >>

NextOrder == \E k \in 1..MaxEvents : Submit(k)

SpecOrder == InitOrder /\ [][NextOrder]_vars

(* ------------- the same adds with and without snapshots ---------------- *)
\* both runs add the event
AddBoth(when, target, kind) ==
    LET event == [when |-> when, target |-> target, kind |-> kind, id |-> nextId]
    IN  /\ nextId < MaxEvents
        /\ runX' = TimelineL_add(runX, event)
        /\ runY' = TimelineL_add(runY, event)
        /\ nextId' = nextId + 1
        /\ maxWhen' = Max(maxWhen, when)
        /\ UNCHANGED << pending, orderX, notBefore, monotonic >>
        /\ UNCHANGED << mainVars, unitVars >>

\* runX alone calls makeNewSnapshot(now), now after all its snapshots' begins
SnapshotX(now) ==
    /\ Len(runX.snapshots) < MaxSnapshots
    /\ \A i \in 1..Len(runX.snapshots) : runX.snapshots[i].begin < now
    /\ runX' = TimelineL_makeNewSnapshot(runX, now)
    /\ notBefore' = (notBefore /\ now >= maxWhen)
    /\ monotonic' = (monotonic /\ now > maxWhen)
    /\ UNCHANGED << runY, pending, orderX, nextId, maxWhen >>
    /\ UNCHANGED << mainVars, unitVars >>

NextSnapshots ==
    \/ \E when \in Times, target \in ActorIDs, kind \in Kinds :
           AddBoth(when, target, kind)
    \/ \E now \in Times : SnapshotX(now)

SpecSnapshots == Init /\ [][NextSnapshots]_vars

(* ------- the second revision alone, remembering what was erased ------- *)
\* timeline.add(new <kind>(Timestamp(when), target)); ret tells whether add
\* went past its early return
AddL(when, target, kind) ==
    LET event == [when |-> when, target |-> target, kind |-> kind, id |-> nextId]
        closestIndex == TimelineL_indexOf(timelineL.snapshots, event)
    IN  /\ nextId < MaxEvents
        /\ timelineL' = TimelineL_add(timelineL, event)
        /\ nextId' = nextId + 1
        /\ lastOp' = [op |-> "add", when |-> when, id |-> nextId,
                      ret |-> closestIndex # -1, index |-> closestIndex]
        /\ UNCHANGED << timeline, maxWhen, monotonic, discarded, ascending, lostBegin >>
        /\ UNCHANGED << runVars, unitVars >>

\* timeline.makeNewSnapshot(now)
MakeNewSnapshotL(now) ==
    /\ Len(timelineL.snapshots) < MaxSnapshots
    /\ timelineL' = TimelineL_makeNewSnapshot(timelineL, now)
    /\ ascending' = (/\ ascending
                     /\ \A i \in 1..Len(timelineL.snapshots) :
                            now > timelineL.snapshots[i].begin)
    /\ lastOp' = [op |-> "snapshotAt", when |-> now, id |-> -1, ret |-> TRUE,
                  index |-> Len(timelineL.snapshots)]
    /\ UNCHANGED << timeline, nextId, maxWhen, monotonic, discarded, lostBegin >>
    /\ UNCHANGED << runVars, unitVars >>

\* timeline.limitSnapshots(count)
LimitSnapshotsL(count) ==
    /\ timelineL' = TimelineL_limitSnapshots(timelineL, count)
    /\ discarded' = (discarded \/ Len(timelineL'.snapshots) < Len(timelineL.snapshots))
    /\ lostBegin' = IF Len(timelineL'.snapshots) < Len(timelineL.snapshots)
                    THEN Max(lostBegin, timelineL'.snapshots[1].begin)
                    ELSE lostBegin
    /\ lastOp' = [op |-> "limitSnapshots", when |-> count, id |-> -1, ret |-> TRUE,
                  index |-> Len(timelineL.snapshots)]
    /\ UNCHANGED << timeline, nextId, maxWhen, monotonic, ascending >>
    /\ UNCHANGED << runVars, unitVars >>

NextLoss ==
    \/ \E when \in Times, target \in ActorIDs, kind \in Kinds : AddL(when, target, kind)
    \/ \E now \in Times : MakeNewSnapshotL(now)
    \/ \E count \in 0..MaxSnapshots : LimitSnapshotsL(count)

SpecLoss == Init /\ [][NextLoss]_vars

(* ------------------- a Timeline of CallbackEvents ---------------------- *)
\* timeline.add(new CallbackEvent(new <kind>(Timestamp(when), target), callback))
AddCallback(when, target, kind) ==
    LET event == [when |-> when, target |-> target, kind |-> kind, id |-> nextId]
        r == TimelineL_addCallback(runX, event, members, applications)
    IN  /\ nextId < MaxEvents
        /\ runX' = r.timeline
        /\ members' = r.members
        /\ applications' = r.applications
        /\ UNCHANGED << theStage, lastApply >>
        /\ nextId' = nextId + 1
        /\ UNCHANGED << runY, pending, orderX, notBefore, maxWhen, monotonic >>
        /\ UNCHANGED mainVars

\* timeline.makeNewSnapshot(now)
MakeNewSnapshotCallback(now) ==
    /\ Len(runX.snapshots) < MaxSnapshots
    /\ runX' = TimelineL_makeNewSnapshot(runX, now)
    /\ UNCHANGED << runY, pending, orderX, notBefore, nextId, maxWhen, monotonic >>
    /\ UNCHANGED << mainVars, unitVars >>

NextCallback ==
    \/ \E when \in Times, target \in ActorIDs, kind \in Kinds :
           AddCallback(when, target, kind)
    \/ \E now \in Times : MakeNewSnapshotCallback(now)

SpecCallback == Init /\ [][NextCallback]_vars

(* ------------- StateSpecificEvents applied to a Stage ------------------ *)
\* stage.add(new Actor(id, state))
StageAdd(id, state) ==
    /\ theStage' = Stage_add(theStage, Actor(id, state))
    /\ lastApply' = [op |-> "add", event |-> NoEvent, before |-> theStage,
                     value |-> FALSE, called |-> FALSE]
    /\ UNCHANGED << members, applications, nextId, maxWhen, monotonic >>
    /\ UNCHANGED << mainVars, runVars >>

\* stage.remove(id)
StageRemove(id) ==
    /\ id \in DOMAIN theStage
    /\ theStage' = Stage_remove(theStage, id)
    /\ lastApply' = [op |-> "remove", event |-> NoEvent, before |-> theStage,
                     value |-> FALSE, called |-> FALSE]
    /\ UNCHANGED << members, applications, nextId, maxWhen, monotonic >>
    /\ UNCHANGED << mainVars, runVars >>

\* event.apply(stage), event a StateSpecificEvent<StateType> on target
ApplyStateSpecific(target, StateType, returns) ==
    LET event == [target |-> target, StateType |-> StateType, returns |-> returns]
        r == StateSpecificEvent_apply(event, theStage)
    IN  /\ \A a \in DOMAIN r.stage :
               r.stage[a].state # nullptr => r.stage[a].state.value <= MaxValue
        /\ theStage' = r.stage
        /\ lastApply' = [op |-> "apply", event |-> event, before |-> theStage,
                         value |-> r.value, called |-> r.called]
        /\ UNCHANGED << members, applications, nextId, maxWhen, monotonic >>
        /\ UNCHANGED << mainVars, runVars >>

NextStateSpecific ==
    \/ \E id \in StageIDs, state \in ActorStates : StageAdd(id, state)
    \/ \E id \in StageIDs : StageRemove(id)
    \/ \E target \in StageIDs, StateType \in StateTypes, returns \in BOOLEAN :
           ApplyStateSpecific(target, StateType, returns)

SpecStateSpecific == Init /\ [][NextStateSpecific]_vars

(* ------------------------ vocabulary of the claims --------------------- *)
\* the spec's live: Timeline::stage() in the first revision, m_latest's stage
\* in the second
live(tl) == Timeline_stage(tl)
liveL(tl) == TimelineL_latest(tl)

\* the events of snapshots from..to, in list order
RECURSIVE Held(_, _, _)
Held(snapshots, from, to) ==
    IF from > to THEN << >>
    ELSE snapshots[from].events \o Held(snapshots, from + 1, to)

HeldSet(snapshots) == UNION {Range(snapshots[i].events) : i \in 1..Len(snapshots)}

\* earlier timestamp first, earlier submission first among equal timestamps
Before(a, b) == a.when < b.when \/ (a.when = b.when /\ a.id < b.id)

RECURSIVE Chronological(_)
Chronological(S) ==
    IF S = {} THEN << >>
    ELSE LET first == CHOOSE e \in S : \A f \in S \ {e} : Before(e, f)
         IN  << first >> \o Chronological(S \ {first})

Min(a, b) == IF a <= b THEN a ELSE b

(* --------------------------------- C1 ---------------------------------- *)
OrderDone == Len(orderX) = Len(pending)

\* events with the same timestamp are submitted by runX in list order
SameTieOrder ==
    \A i, j \in 1..Len(orderX) :
        (i < j /\ pending[orderX[i]].when = pending[orderX[j]].when)
            => orderX[i] < orderX[j]

\* C1 as stated: two submission orders of the same events into a fresh
\* Timeline end with the same live stage.
C1_OrderedReplayEquivalence == OrderDone => liveL(runX) = liveL(runY)

\* C1 amended: two submission orders of the same events that agree on the
\* relative order of events with equal timestamps end with the same live stage.
C1_OrderedReplayEquivalenceUpToTies ==
    (OrderDone /\ SameTieOrder) => liveL(runX) = liveL(runY)

\* three events with distinct timestamps submitted newest first, and the
\* order matters to the result
C1_Witness ==
    /\ OrderDone /\ Len(pending) = 3
    /\ orderX = << 3, 2, 1 >>
    /\ pending[1].when < pending[2].when /\ pending[2].when < pending[3].when
    /\ pending[1].kind = "CreateEvent" /\ pending[2].kind = "IncrementEvent"
    /\ pending[3].kind = "DoubleEvent"
    /\ liveL(runX)[100] = 2

(* --------------------------------- C2 ---------------------------------- *)
\* C2 (first revision): live equals every held event applied in
\* timestamp-then-insertion order to snapshots[0].base; stated for the runs
\* whose snapshots are taken as the spec expects, where it already fails.
C2_LiveCorrectness ==
    monotonic =>
        live(timeline) =
            applyEvents(Chronological(HeldSet(timeline.snapshots)),
                        timeline.snapshots[1].stage)

\* C2 (second revision), for the snapshots the spec expects: live equals every
\* held event applied in timestamp-then-insertion order to snapshots[0].base.
C2_LiveCorrectnessL ==
    monotonic =>
        liveL(timelineL) =
            applyEvents(Chronological(HeldSet(timelineL.snapshots)),
                        timelineL.snapshots[1].stage)

(* --------------------------------- C3 ---------------------------------- *)
\* C3 (first revision): the base of every snapshot after the first is the
\* events of all earlier snapshots applied in order to the empty stage; stated
\* for the runs whose snapshots are taken as the spec expects, where it
\* already fails.
C3_BaseCorrectness ==
    (~discarded /\ monotonic) =>
        \A i \in 2..Len(timeline.snapshots) :
            timeline.snapshots[i].stage =
                applyEvents(Held(timeline.snapshots, 1, i - 1), Stage_empty)

\* C3 (second revision): the same statement about m_snapshots there.
C3_BaseCorrectnessL ==
    ~discarded =>
        \A i \in 2..Len(timelineL.snapshots) :
            timelineL.snapshots[i].stage =
                applyEvents(Held(timelineL.snapshots, 1, i - 1), Stage_empty)

C5_Admission ==
    lastOp.op = "add" =>
        /\ (lastOp.ret = FALSE) <=> (lastOp.when < timeline.snapshots[1].begin)
        /\ (lastOp.index = -1) <=> (lastOp.when < timelineL.snapshots[1].begin)

(* --------------------------------- C6 ---------------------------------- *)
\* the largest 0-based i with snapshots[i].begin <= t
LargestNotAfter(snapshots, t) ==
    LET ok == {i \in 0..(Len(snapshots) - 1) : snapshots[i + 1].begin <= t}
    IN  CHOOSE i \in ok : \A j \in ok : j <= i

IsLast(event) == event.id = lastOp.id

\* C6: an admitted event with timestamp t is in the event list of the snapshot
\* with the largest index i such that snapshots[i].begin <= t.
C6_LocateTieBreak ==
    (lastOp.op = "add" /\ lastOp.ret) =>
        /\ \E e \in Range(timeline.snapshots[
                  LargestNotAfter(timeline.snapshots, lastOp.when) + 1].events) :
               IsLast(e)
        /\ \E e \in Range(timelineL.snapshots[
                  LargestNotAfter(timelineL.snapshots, lastOp.when) + 1].events) :
               IsLast(e)

(* --------------------------------- C7 ---------------------------------- *)
\* C7: with snapshots taken after all begins and all timestamps so far, every
\* event of snapshot i has begin(i) <= when, and when < begin(i+1) if it exists.
C7_SnapshotRange ==
    monotonic =>
        \A i \in 1..Len(timelineL.snapshots) :
            \A e \in Range(timelineL.snapshots[i].events) :
                /\ timelineL.snapshots[i].begin <= e.when
                /\ i < Len(timelineL.snapshots) =>
                       e.when < timelineL.snapshots[i + 1].begin

(* --------------------------------- C8 ---------------------------------- *)
Ordered(events) ==
    \A j, k \in 1..Len(events) : j < k => Before(events[j], events[k])

\* C8 (first revision, StageSnapshot::add): every event list is ascending by
\* when, equal timestamps in submission order.
C8_EventListOrder ==
    \A i \in 1..Len(timeline.snapshots) : Ordered(timeline.snapshots[i].events)

\* C8 (second revision, StageSnapshot::addEvent): the same statement.
C8_EventListOrderL ==
    \A i \in 1..Len(timelineL.snapshots) : Ordered(timelineL.snapshots[i].events)

(* --------------------------------- C9 ---------------------------------- *)
\* C9: a rejected add leaves live, the number of snapshots and every
\* snapshot's begin, base and event list as they were, in both revisions.
C9_RejectedAddChangesNothing ==
    [][(lastOp'.op = "add" /\ (~lastOp'.ret \/ lastOp'.index = -1))
          => (timeline' = timeline /\ timelineL' = timelineL)]_vars

\* an event was rejected by a timeline that holds events and two snapshots
C9_Witness ==
    /\ lastOp.op = "add" /\ ~lastOp.ret /\ lastOp.index = -1
    /\ lastOp.when > ZERO
    /\ Len(timelineL.snapshots) = 2
    /\ HeldSet(timelineL.snapshots) # {}
    /\ HeldSet(timeline.snapshots) # {}

(* --------------------------------- C10 --------------------------------- *)
\* the snapshots of after are the last ones of before, unchanged and in order
KeptLast(before, after, n) ==
    /\ Len(after) = Min(n, Len(before))
    /\ \A k \in 1..Len(after) : after[k] = before[Len(before) - Len(after) + k]
    /\ \A i \in 1..(Len(before) - Len(after)) :
           \A e \in Range(before[i].events) : e \notin HeldSet(after)

\* C10: limitSnapshots(n), n >= 1, keeps exactly the min(n, count) most recent
\* snapshots, unchanged and in order, leaves live unchanged, and the events of
\* the erased snapshots are in no event list.
C10_LimitSnapshots ==
    [][(lastOp'.op = "limitSnapshots" /\ lastOp'.when >= 1)
          => /\ KeptLast(timeline.snapshots, timeline'.snapshots, lastOp'.when)
             /\ KeptLast(timelineL.snapshots, timelineL'.snapshots, lastOp'.when)
             /\ live(timeline') = live(timeline)
             /\ liveL(timelineL') = liveL(timelineL)]_vars

\* limitSnapshots(2) erased the first of three snapshots, which held events
C10_Witness ==
    /\ lastOp.op = "limitSnapshots" /\ lastOp.when = 2 /\ lastOp.index = 3
    /\ Len(timelineL.snapshots) = 2 /\ Len(timeline.snapshots) = 2
    /\ Cardinality(HeldSet(timelineL.snapshots)) < nextId
    /\ HeldSet(timelineL.snapshots) # {}

(* --------------------------------- C11 --------------------------------- *)
\* C11 as stated: once limitSnapshots has erased snapshots and left a
\* snapshot with begin b oldest, every later add of an event with when < b is
\* rejected, whatever calls happen in between.
C11_PermanentLoss ==
    (lastOp.op = "add" /\ lastOp.when < lostBegin)
        => (lastOp.index = -1 /\ lastOp.id \notin {e.id : e \in HeldSet(timelineL.snapshots)})

\* C11 amended: the same, when every snapshot is taken with a timestamp
\* greater than the begins of all snapshots before it.
C11_PermanentLossAscending ==
    (ascending /\ lastOp.op = "add" /\ lastOp.when < lostBegin)
        => (lastOp.index = -1 /\ lastOp.id \notin {e.id : e \in HeldSet(timelineL.snapshots)})

\* snapshots were erased and two snapshots are retained; an event newer than
\* ZERO but older than the oldest retained begin was submitted, and rejected
C11_Witness ==
    /\ ascending /\ lastOp.op = "add" /\ lastOp.when > ZERO
    /\ lastOp.when < lostBegin
    /\ discarded /\ Len(timelineL.snapshots) >= 2
    /\ lastOp.index = -1

(* --------------------------------- C12 --------------------------------- *)
Increasing(snapshots) ==
    \A i \in 1..(Len(snapshots) - 1) : snapshots[i].begin < snapshots[i + 1].begin

\* C12 as stated: after any sequence of calls the begins of adjacent
\* snapshots are strictly increasing.
C12_BeginsIncreasing ==
    Increasing(timeline.snapshots) /\ Increasing(timelineL.snapshots)

\* C12 amended: the begins are strictly increasing when every snapshot is
\* taken with a timestamp greater than the begins of all snapshots before it.
C12_BeginsIncreasingAscending ==
    ascending => (Increasing(timeline.snapshots) /\ Increasing(timelineL.snapshots))

\* three snapshots after an erasing limitSnapshots, with events in between
C12_Witness ==
    /\ ascending /\ discarded
    /\ Len(timelineL.snapshots) = 3 /\ Len(timeline.snapshots) = 3
    /\ HeldSet(timelineL.snapshots) # {}

(* --------------------------------- C13 --------------------------------- *)
Last(s) == s[Len(s)]

\* C13 (first revision): live equals the base of the last snapshot with that
\* snapshot's events applied in order; stated for the runs whose snapshots are
\* taken as the spec expects, where it already fails.
C13_LiveFromLastBase ==
    monotonic =>
        live(timeline) =
            applyEvents(Last(timeline.snapshots).events, Last(timeline.snapshots).stage)

\* C13 (second revision): live equals the base of the last snapshot with that
\* snapshot's events applied in order.
C13_LiveFromLastBaseL ==
    liveL(timelineL) =
        applyEvents(Last(timelineL.snapshots).events, Last(timelineL.snapshots).stage)

(* --------------------------------- C14 --------------------------------- *)
\* the event of the add that lastOp' records
Added(snapshots) == CHOOSE e \in HeldSet(snapshots) : e.id = lastOp'.id

\* the add anchors in the last snapshot (indexOf gave its index) and its event
\* is newer than every event that snapshot held
FastPath(snapshots) ==
    /\ lastOp'.op = "add"
    /\ lastOp'.index = Len(snapshots) - 1
    /\ \A e \in Range(Last(snapshots).events) : e.when < lastOp'.when

\* C14 (first revision): an add that anchors in the last snapshot with an event
\* newer than every event there leaves live equal to the previous live with
\* that one event applied once.
C14_FastPath ==
    [][FastPath(timeline.snapshots)
          => live(timeline') =
                 Event_apply(Added(timeline'.snapshots), live(timeline)).stage]_vars

\* C14 (second revision): the same statement about m_latest there.
C14_FastPathL ==
    [][FastPath(timelineL.snapshots)
          => liveL(timelineL') =
                 Event_apply(Added(timelineL'.snapshots), liveL(timelineL)).stage]_vars

(* --------------------------------- C15 --------------------------------- *)
\* the applications of the same CallbackEvent before the k-th application
Earlier(k) == {j \in 1..(k - 1) : applications[j].id = applications[k].id}

Previous(k) == CHOOSE j \in Earlier(k) : \A i \in Earlier(k) : i <= j

\* C15: on every application of a CallbackEvent, replays included, the
\* callback is called, with the wrapped event's target and the value the
\* wrapped apply returned, exactly when it is the event's first application or
\* that value differs from the value of its previous application; apply
\* itself returns true.
C15_CallbackOnChange ==
    \A k \in 1..Len(applications) :
        /\ applications[k].called <=>
               (\/ Earlier(k) = {}
                \/ applications[Previous(k)].value # applications[k].value)
        /\ applications[k].ret
        /\ \E e \in HeldSet(runX.snapshots) :
               e.id = applications[k].id /\ e.target = applications[k].target

\* an IncrementEvent was submitted before the earlier-timestamped CreateEvent
\* of its actor: the callback got false for it, then true after the creation
\* was added, and was not called for a replay that gave the same value
C15_Witness ==
    \E i, j, k \in 1..Len(applications) :
        /\ i < j /\ applications[i].id = applications[j].id
        /\ \E e \in HeldSet(runX.snapshots) :
               e.id = applications[i].id /\ e.kind = "IncrementEvent"
        /\ applications[i].called /\ ~applications[i].value
        /\ applications[j].called /\ applications[j].value
        /\ ~applications[k].called

(* --------------------------------- C16 --------------------------------- *)
\* the target of the last apply was on the stage with a state of the type the
\* event names
HadVariant ==
    /\ lastApply.event.target \in DOMAIN lastApply.before
    /\ lastApply.before[lastApply.event.target].state.type = lastApply.event.StateType

\* C16: a StateSpecificEvent<S> applied to a stage where its target is absent
\* or has a state that is not an S returns false and leaves the stage
\* unchanged; the override apply(stage, state) is called only when the actor
\* exists with a state of type S, and its result is what apply returns.
C16_StateSpecificGuard ==
    lastApply.op = "apply" =>
        /\ ~HadVariant =>
               (~lastApply.value /\ theStage = lastApply.before /\ ~lastApply.called)
        /\ lastApply.called => HadVariant
        /\ HadVariant => (lastApply.called /\ lastApply.value = lastApply.event.returns)

\* an event for IntState was applied to an actor that exists with a state of
\* another type, with an override that would have returned true
C16_Witness ==
    /\ lastApply.op = "apply" /\ lastApply.event.StateType = "IntState"
    /\ lastApply.event.returns
    /\ lastApply.event.target \in DOMAIN lastApply.before
    /\ lastApply.before[lastApply.event.target].state.type = "OtherState"
    /\ ~lastApply.value
    /\ \E a \in DOMAIN theStage : theStage[a].state.type = "IntState"

(* --------------------------------- C17 --------------------------------- *)
\* after is before with one snapshot appended: begin now, the given base, no
\* events
AppendedOne(before, after, now, base) ==
    /\ Len(after) = Len(before) + 1
    /\ SubSeq(after, 1, Len(before)) = before
    /\ Last(after) = [begin |-> now, stage |-> base, events |-> << >>]

\* C17: snapshotAt(t) / makeNewSnapshot(t) appends exactly one snapshot, with
\* begin t, base equal to live at the call and no events, and leaves live and
\* every existing snapshot unchanged.
C17_SnapshotAtFrame ==
    [][lastOp'.op = "snapshotAt"
          => /\ AppendedOne(timeline.snapshots, timeline'.snapshots,
                            lastOp'.when, live(timeline))
             /\ live(timeline') = live(timeline)
             /\ AppendedOne(timelineL.snapshots, timelineL'.snapshots,
                            lastOp'.when, liveL(timelineL))
             /\ liveL(timelineL') = liveL(timelineL)]_vars

\* a third snapshot was just taken, of a live stage where the actor exists,
\* on a timeline that holds events
C17_Witness ==
    /\ lastOp.op = "snapshotAt"
    /\ Len(timelineL.snapshots) = 3 /\ Len(timeline.snapshots) = 3
    /\ HeldSet(timelineL.snapshots) # {}
    /\ \E a \in ActorIDs : find(liveL(timelineL), a) # null
    /\ Last(timelineL.snapshots).stage = liveL(timelineL)
    /\ Last(timelineL.snapshots).begin = lastOp.when

(* --------------------------------- C18 --------------------------------- *)
\* an add anchored in snapshot index (counted from 0) left the bases of
\* snapshots 0..index and the event lists of all snapshots but that one as
\* they were
AddFrame(before, after, index) ==
    /\ Len(after) = Len(before)
    /\ \A i \in 1..(index + 1) : after[i].stage = before[i].stage
    /\ \A i \in 1..Len(before) : i # index + 1 => after[i].events = before[i].events

\* C18 (first revision): an add anchored in snapshot i leaves the bases of
\* snapshots 0..i and the event lists of all snapshots other than i unchanged.
C18_AddFrame ==
    [][(lastOp'.op = "add" /\ lastOp'.index # -1)
          => AddFrame(timeline.snapshots, timeline'.snapshots, lastOp'.index)]_vars

\* C18 (second revision): the same statement about m_snapshots there.
C18_AddFrameL ==
    [][(lastOp'.op = "add" /\ lastOp'.index # -1)
          => AddFrame(timelineL.snapshots, timelineL'.snapshots, lastOp'.index)]_vars

(* --------------------------------- C19 --------------------------------- *)
\* no event is twice in the event lists
HeldOnce(snapshots) ==
    LET all == Held(snapshots, 1, Len(snapshots))
    IN  \A i, j \in 1..Len(all) : all[i].id = all[j].id => i = j

\* C19: every admitted event is in the event lists exactly once until a
\* limitSnapshots erases its snapshot, whatever its apply returned; and it is
\* applied again on every replay: after an admitted add live is the events
\* from the anchoring snapshot on, applied in list order to that snapshot's
\* base.
C19_EventsKept ==
    [][/\ HeldOnce(timelineL'.snapshots)
       /\ (lastOp'.op = "add" /\ lastOp'.index # -1)
             => /\ \E e \in HeldSet(timelineL'.snapshots) :
                       /\ e.id = lastOp'.id
                       /\ e \notin HeldSet(timelineL.snapshots)
                       /\ HeldSet(timelineL'.snapshots) =
                              HeldSet(timelineL.snapshots) \cup {e}
                /\ liveL(timelineL') =
                       applyEvents(Held(timelineL'.snapshots, lastOp'.index + 1,
                                        Len(timelineL'.snapshots)),
                                   timelineL.snapshots[lastOp'.index + 1].stage)
       /\ \A e \in HeldSet(timelineL.snapshots) \ HeldSet(timelineL'.snapshots) :
              /\ lastOp'.op = "limitSnapshots"
              /\ \E i \in 1..(Len(timelineL.snapshots) - Len(timelineL'.snapshots)) :
                     e \in Range(timelineL.snapshots[i].events)]_vars

\* an IncrementEvent was admitted when its actor did not exist, so its apply
\* returned false; the CreateEvent added after it with an earlier timestamp
\* made the replay apply it with effect
C19_Witness ==
    /\ nextId = 2 /\ lastOp.op = "add"
    /\ \E e, f \in HeldSet(timelineL.snapshots) :
           /\ e.kind = "IncrementEvent" /\ e.id = 0
           /\ f.kind = "CreateEvent" /\ f.id = 1 /\ f.when < e.when
    /\ \E a \in ActorIDs : find(liveL(timelineL), a) = 1

(* --------------------------------- C20 --------------------------------- *)
\* C20: the snapshot list is never empty: a new Timeline has exactly one
\* snapshot, with begin ZERO, an empty base and no events, and after any
\* sequence of calls at least one snapshot remains; limitSnapshots(n) with
\* n <= 0 acts as limitSnapshots(1) and leaves exactly one.
C20_NeverEmpty ==
    /\ Len(timeline.snapshots) >= 1
    /\ Len(timelineL.snapshots) >= 1
    /\ lastOp.op = "new" =>
           /\ timeline.snapshots =
                  << [begin |-> ZERO, stage |-> Stage_empty, events |-> << >>] >>
           /\ timelineL.snapshots =
                  << [begin |-> ZERO, stage |-> Stage_empty, events |-> << >>] >>
    /\ (lastOp.op = "limitSnapshots" /\ lastOp.when <= 0) =>
           /\ Len(timeline.snapshots) = 1
           /\ Len(timelineL.snapshots) = 1

\* limitSnapshots(-1) on a timeline of three snapshots: one is left, the last
\* one taken
C20_Witness ==
    /\ lastOp.op = "limitSnapshots" /\ lastOp.when = -1 /\ lastOp.index = 3
    /\ Len(timelineL.snapshots) = 1 /\ Len(timeline.snapshots) = 1
    /\ timelineL.snapshots[1].begin # ZERO

====
